---- MODULE Spec2Model ----
(***************************************************************************)
(* Daily stock-ticker sync: scheduler.py (the polling loop around          *)
(* scheduled_stock_job) and script.py (run_stock_job, write_to_snowflake). *)
(* Time is counted in polling ticks; a calendar day is TicksPerDay ticks   *)
(* and the 09:00 trigger is the start of tick AtTick of each day.          *)
(***************************************************************************)
EXTENDS Integers, Sequences, FiniteSets, TLC

VARIABLES
    now,        \* wall clock, in ticks since day 0, 00:00
    pc,         \* position of the one process: down, sleep, fetch, connect, create, insert, commit, close, returned, raised
    mode,       \* which file the process runs: none, scheduler (scheduler.py), script (script.py __main__)
    next_run,   \* the schedule library's next_run of the registered job
    url,        \* run_stock_job: the page to request next (0 is None)
    tickers,    \* run_stock_job: the accumulated result list
    ds_value,   \* write_to_snowflake: the load date string of the batch
    openConns,  \* warehouse connections of the process that are open
    table,      \* rows of the warehouse table SF_TABLE, in insertion order
    reported,   \* n of the last "Wrote n rows" line, -1 before any
    run,        \* observation of the current (or last) job run, and whether its INSERT awaits commit
    hist,       \* observation of the scheduler's invocations
    raw,        \* the schema mapper alone: the raw record
    row         \* the schema mapper alone: the mapped row

vars == <<now, pc, mode, next_run, url, tickers, ds_value, openConns, table,
          reported, run, hist, raw, row>>

progVars == <<now, pc, mode, next_run, url, tickers, ds_value, openConns,
              table, reported, run, hist>>

(***************************************************************************)
(* Bounds of the model.                                                    *)
(***************************************************************************)
TicksPerDay == 2
MaxNow == 6
MaxRecords == 2
MaxDelay == 1
MaxScriptRuns == 2
MaxMapDay == 1

(***************************************************************************)
(* Program constants.                                                      *)
(***************************************************************************)
AtTick == 1
PollTicks == 1

(***************************************************************************)
(* Python values: str, bool, None and int, as records of one shape.        *)
(***************************************************************************)
Str(s) == [tag |-> "str", s |-> s, b |-> FALSE, n |-> 0]
Bool(b) == [tag |-> "bool", s |-> <<>>, b |-> b, n |-> 0]
Num(n) == [tag |-> "int", s |-> <<>>, b |-> FALSE, n |-> n]
None == [tag |-> "null", s |-> <<>>, b |-> FALSE, n |-> 0]

Digit(n) ==
    CASE n = 0 -> "0" [] n = 1 -> "1" [] n = 2 -> "2" [] n = 3 -> "3"
      [] n = 4 -> "4" [] n = 5 -> "5" [] n = 6 -> "6" [] n = 7 -> "7"
      [] n = 8 -> "8" [] OTHER -> "9"

\* str.lower() on one character
LowerChar(c) ==
    CASE c = "T" -> "t" [] c = "R" -> "r" [] c = "U" -> "u" [] c = "E" -> "e"
      [] c = "F" -> "f" [] c = "A" -> "a" [] c = "L" -> "l" [] c = "S" -> "s"
      [] c = "X" -> "x" [] OTHER -> c

Lower(s) == [i \in 1..Len(s) |-> LowerChar(s[i])]

TARGET_SCHEMA ==
    << <<"ticker", "VARCHAR">>, <<"name", "VARCHAR">>, <<"market", "VARCHAR">>,
       <<"locale", "VARCHAR">>, <<"primary_exchange", "VARCHAR">>,
       <<"type", "VARCHAR">>, <<"active", "BOOLEAN">>,
       <<"currency_name", "VARCHAR">>, <<"cik", "VARCHAR">>,
       <<"composite_figi", "VARCHAR">>, <<"share_class_figi", "VARCHAR">>,
       <<"last_updated_utc", "TIMESTAMP_NTZ">>, <<"ds", "VARCHAR">> >>

cols_order == [i \in 1..Len(TARGET_SCHEMA) |-> TARGET_SCHEMA[i][1]]

\* dict.get(col): the value, None when the key is absent
Get(t, col) == IF col \in DOMAIN t THEN t[col] ELSE None

CoerceCaseSensitive(val) ==
    IF val.tag = "str" /\ val.s \in {<<"t", "r", "u", "e">>, <<"f", "a", "l", "s", "e">>}
    THEN Bool(val.s = <<"t", "r", "u", "e">>)
    ELSE val

\* lines 126-127: text true/false, in any case, becomes a bool
Coerce(val) ==
    IF val.tag = "str" /\ Lower(val.s) \in {<<"t", "r", "u", "e">>, <<"f", "a", "l", "s", "e">>}
    THEN Bool(Lower(val.s) = <<"t", "r", "u", "e">>)
    ELSE val

\* lines 118-129: one row per record, one value per column, in schema order
BuildRow(t, ds) ==
    [i \in 1..Len(cols_order) |->
        IF cols_order[i] = "ds" THEN ds ELSE Coerce(Get(t, cols_order[i]))]

\* lines 116-129
BuildRows(ts, ds) == [k \in 1..Len(ts) |-> BuildRow(ts[k], ds)]

(***************************************************************************)
(* The clock and the calendar.                                             *)
(***************************************************************************)
Day(t) == t \div TicksPerDay

\* date.isoformat(): the date as text (two digits of the day number)
IsoFormat(d) == Str(<<Digit(d \div 10), Digit(d % 10)>>)

\* date.today().isoformat() read at time t
Today(t) == IsoFormat(Day(t))

\* the instant of the 09:00 trigger of day d
TriggerOf(d) == d * TicksPerDay + AtTick

\* the trigger instants in the half-open interval (t1, t2]
Passed(t1, t2) == {d \in 0..Day(t2) : t1 < TriggerOf(d) /\ TriggerOf(d) <= t2}

NextAtSameDayAgain(t) == Day(t) * TicksPerDay + AtTick

\* every().day.at("09:00"): next_run, set at registration and again each time
\* the job function returns, is the first 09:00 strictly after that moment t
NextAt(t) ==
    IF t % TicksPerDay < AtTick
    THEN Day(t) * TicksPerDay + AtTick
    ELSE (Day(t) + 1) * TicksPerDay + AtTick

(***************************************************************************)
(* The remote API: page p of the chain holds n records and links to page   *)
(* p + 1 when it has a next_url. The chain is finite: the API holds at     *)
(* most MaxRecords matching tickers, and a page links onward only while    *)
(* records remain.                                                         *)
(***************************************************************************)
ApiRecord(p, i) ==
    [f \in {"ticker", "market", "active"} |->
        CASE f = "ticker" -> Str(<<"P", Digit(p), Digit(i)>>)
          [] f = "market" -> Str(<<"s">>)
          [] OTHER -> IF i % 2 = 1 THEN Str(<<"T", "r", "u", "e">>) ELSE Bool(TRUE)]

\* data.get("results", [])
Results(p, n) == [i \in 1..n |-> ApiRecord(p, i)]

\* data.get("next_url"), with the key appended; 0 is None
NextUrl(p, hasNext) == IF hasNext THEN p + 1 ELSE 0

ExtendFront(tk, results) == results \o tk

\* tickers.extend(results)
Extend(tk, results) == tk \o results

Served(u, kind, n, hasNext) == [url |-> u, kind |-> kind, n |-> n, next |-> hasNext]

(***************************************************************************)
(* Observations.                                                           *)
(***************************************************************************)
NoRun ==
    [start |-> 0, served |-> <<>>, stmts |-> <<>>, writeCalled |-> FALSE,
     tableBefore |-> <<>>, outcome |-> "none", err |-> "none", built |-> -1,
     pending |-> FALSE]

NewRun ==
    [start |-> now, served |-> <<>>, stmts |-> <<>>, writeCalled |-> FALSE,
     tableBefore |-> table, outcome |-> "running", err |-> "none", built |-> -1,
     pending |-> FALSE]

NoHist ==
    [invocations |-> <<>>, trigIdle |-> {}, trigBusy |-> {}, failures |-> 0,
     scriptRuns |-> 0]

\* time passes from now to t inside a job: triggers passed while busy
Busy(t) ==
    IF mode = "scheduler"
    THEN [hist EXCEPT !.trigBusy = @ \cup Passed(now, t)]
    ELSE hist

JobPcs == {"fetch", "connect", "create", "insert", "commit", "close", "returned", "raised"}

Init ==
    /\ now = 0
    /\ pc = "down"
    /\ mode = "none"
    /\ next_run = 0
    /\ url = 0
    /\ tickers = <<>>
    /\ ds_value = None
    /\ openConns = 0
    /\ table = <<>>
    /\ reported = -1
    /\ run = NoRun
    /\ hist = NoHist
    /\ raw = <<>>
    /\ row = <<>>

(***************************************************************************)
(* The process: started, killed, or absent while time passes.              *)
(***************************************************************************)
\* python scheduler.py: the job is registered and the loop is entered; the
\* first run_pending() finds nothing due, since next_run is after now
StartScheduler ==
    /\ pc = "down"
    /\ mode' = "scheduler"
    /\ next_run' = NextAt(now)
    /\ pc' = "sleep"
    /\ hist' = [hist EXCEPT !.failures = 0]
    /\ UNCHANGED <<now, url, tickers, ds_value, openConns, table, reported, run, raw, row>>

\* python script.py: run_stock_job() is entered
StartScript ==
    /\ pc = "down"
    /\ hist.scriptRuns < MaxScriptRuns
    /\ mode' = "script"
    /\ pc' = "fetch"
    /\ url' = 1
    /\ tickers' = <<>>
    /\ run' = NewRun
    /\ hist' = [hist EXCEPT !.scriptRuns = @ + 1, !.failures = 0]
    /\ UNCHANGED <<now, next_run, ds_value, openConns, table, reported, raw, row>>

\* the process is terminated from outside: its memory and its connections
\* are gone, what a pending transaction holds is never committed
Kill ==
    /\ pc # "down"
    /\ pc' = "down"
    /\ mode' = "none"
    /\ next_run' = 0
    /\ url' = 0
    /\ tickers' = <<>>
    /\ ds_value' = None
    /\ openConns' = 0
    /\ reported' = -1
    /\ run' = NoRun
    /\ hist' = [hist EXCEPT !.failures = 0]
    /\ UNCHANGED <<now, table, raw, row>>

\* no process: time passes
Idle ==
    /\ pc = "down"
    /\ now < MaxNow
    /\ now' = now + 1
    /\ UNCHANGED <<pc, mode, next_run, url, tickers, ds_value, openConns, table,
                   reported, run, hist, raw, row>>

(***************************************************************************)
(* scheduler.py                                                            *)
(***************************************************************************)
ShouldRunLate(t) == t > next_run

\* schedule's should_run: datetime.now() >= next_run
ShouldRun(t) == t >= next_run

\* time.sleep(60), then schedule.run_pending(): the job is due and is invoked
PollDue ==
    /\ pc = "sleep"
    /\ now + PollTicks <= MaxNow
    /\ ShouldRun(now + PollTicks)
    /\ now' = now + PollTicks
    /\ pc' = "fetch"
    /\ url' = 1
    /\ tickers' = <<>>
    /\ run' = [NewRun EXCEPT !.start = now']
    /\ hist' = [hist EXCEPT !.invocations = Append(@, now'),
                            !.trigIdle = @ \cup Passed(now, now')]
    /\ UNCHANGED <<mode, next_run, ds_value, openConns, table, reported, raw, row>>

\* time.sleep(60), then schedule.run_pending(): nothing is due
PollIdle ==
    /\ pc = "sleep"
    /\ now + PollTicks <= MaxNow
    /\ ~ShouldRun(now + PollTicks)
    /\ now' = now + PollTicks
    /\ hist' = [hist EXCEPT !.trigIdle = @ \cup Passed(now, now')]
    /\ UNCHANGED <<pc, mode, next_run, url, tickers, ds_value, openConns, table,
                   reported, run, raw, row>>

\* run_stock_job returned: the completion line, and schedule sets next_run
SyncCompleted ==
    /\ pc = "returned"
    /\ mode = "scheduler"
    /\ pc' = "sleep"
    /\ next_run' = NextAt(now)
    /\ run' = [run EXCEPT !.outcome = "completed"]
    /\ UNCHANGED <<now, mode, url, tickers, ds_value, openConns, table, reported,
                   hist, raw, row>>

SyncFailedUncaught ==
    /\ pc = "raised"
    /\ mode = "scheduler"
    /\ pc' = "down"
    /\ mode' = "none"
    /\ openConns' = 0
    /\ run' = [run EXCEPT !.outcome = "failed"]
    /\ hist' = [hist EXCEPT !.failures = @ + 1]
    /\ UNCHANGED <<now, next_run, url, tickers, ds_value, table, reported, raw, row>>

\* except Exception: the failure line; the job function returns to schedule
SyncFailed ==
    /\ pc = "raised"
    /\ mode = "scheduler"
    /\ pc' = "sleep"
    /\ next_run' = NextAt(now)
    /\ run' = [run EXCEPT !.outcome = "failed"]
    /\ hist' = [hist EXCEPT !.failures = @ + 1]
    /\ UNCHANGED <<now, mode, url, tickers, ds_value, openConns, table, reported,
                   raw, row>>

(***************************************************************************)
(* script.py run as a program                                              *)
(***************************************************************************)
\* run_stock_job() returned: the process exits
ScriptExit ==
    /\ pc = "returned"
    /\ mode = "script"
    /\ pc' = "down"
    /\ mode' = "none"
    /\ url' = 0
    /\ tickers' = <<>>
    /\ ds_value' = None
    /\ openConns' = 0
    /\ reported' = -1
    /\ run' = NoRun
    /\ UNCHANGED <<now, next_run, table, hist, raw, row>>

\* run_stock_job() raised: nothing catches it, the process exits
ScriptTraceback ==
    /\ pc = "raised"
    /\ mode = "script"
    /\ pc' = "down"
    /\ mode' = "none"
    /\ url' = 0
    /\ tickers' = <<>>
    /\ ds_value' = None
    /\ openConns' = 0
    /\ reported' = -1
    /\ run' = NoRun
    /\ UNCHANGED <<now, next_run, table, hist, raw, row>>

(***************************************************************************)
(* script.py: run_stock_job                                                *)
(***************************************************************************)
WriteEntryAlways(tk) == "connect"

\* write_to_snowflake's guard: an empty list returns at once
WriteEntry(tk) == IF tk = <<>> THEN "returned" ELSE "connect"

\* the loop is left: write_to_snowflake(tk) is called and, when it returns
\* at once, "Wrote 0 rows" is printed
CallWrite(tk, served) ==
    /\ run' = [run EXCEPT !.served = Append(@, served), !.writeCalled = TRUE]
    /\ pc' = WriteEntry(tk)
    /\ reported' = IF WriteEntry(tk) = "returned" THEN Len(tk) ELSE reported

FetchTransportErrorCaught ==
    /\ pc = "fetch"
    /\ \E d \in 0..MaxDelay :
        /\ now + d <= MaxNow
        /\ now' = now + d
        /\ hist' = Busy(now + d)
    /\ run' = [run EXCEPT !.served = Append(@, Served(url, "transport", 0, FALSE)),
                          !.err = "transport", !.writeCalled = TRUE]
    /\ pc' = WriteEntry(tickers)
    /\ reported' = IF WriteEntry(tickers) = "returned" THEN Len(tickers) ELSE reported
    /\ UNCHANGED <<mode, next_run, url, tickers, ds_value, openConns, table, raw, row>>

\* requests.get(url) raises: nothing in run_stock_job catches it
FetchTransportError ==
    /\ pc = "fetch"
    /\ \E d \in 0..MaxDelay :
        /\ now + d <= MaxNow
        /\ now' = now + d
        /\ hist' = Busy(now + d)
    /\ run' = [run EXCEPT !.served = Append(@, Served(url, "transport", 0, FALSE)),
                          !.err = "transport"]
    /\ pc' = "raised"
    /\ UNCHANGED <<mode, next_run, url, tickers, ds_value, openConns, table,
                   reported, raw, row>>

\* response.json() raises ValueError: break, then the write
FetchBadJson ==
    /\ pc = "fetch"
    /\ \E d \in 0..MaxDelay :
        /\ now + d <= MaxNow
        /\ now' = now + d
        /\ hist' = Busy(now + d)
    /\ CallWrite(tickers, Served(url, "badjson", 0, FALSE))
    /\ UNCHANGED <<mode, next_run, url, tickers, ds_value, openConns, table, raw, row>>

FetchNotOKDiscard ==
    /\ pc = "fetch"
    /\ \E d \in 0..MaxDelay :
        /\ now + d <= MaxNow
        /\ now' = now + d
        /\ hist' = Busy(now + d)
    /\ tickers' = <<>>
    /\ CallWrite(<<>>, Served(url, "notok", 0, FALSE))
    /\ UNCHANGED <<mode, next_run, url, ds_value, openConns, table, raw, row>>

\* the status is not "OK": break, then the write
FetchNotOK ==
    /\ pc = "fetch"
    /\ \E d \in 0..MaxDelay :
        /\ now + d <= MaxNow
        /\ now' = now + d
        /\ hist' = Busy(now + d)
    /\ CallWrite(tickers, Served(url, "notok", 0, FALSE))
    /\ UNCHANGED <<mode, next_run, url, tickers, ds_value, openConns, table, raw, row>>

\* status "OK" with an empty result list: break, then the write
FetchEmpty ==
    /\ pc = "fetch"
    /\ \E d \in 0..MaxDelay, hasNext \in BOOLEAN :
        /\ now + d <= MaxNow
        /\ hasNext => Len(tickers) < MaxRecords
        /\ now' = now + d
        /\ hist' = Busy(now + d)
        /\ CallWrite(tickers, Served(url, "ok", 0, hasNext))
    /\ UNCHANGED <<mode, next_run, url, tickers, ds_value, openConns, table, raw, row>>

\* status "OK", n records and a next_url: extend, pause 15 s, loop
FetchPageNext ==
    /\ pc = "fetch"
    /\ \E d \in 0..MaxDelay, n \in 1..(MaxRecords - Len(tickers) - 1) :
        /\ now + d <= MaxNow
        /\ now' = now + d
        /\ hist' = Busy(now + d)
        /\ tickers' = Extend(tickers, Results(url, n))
        /\ run' = [run EXCEPT !.served = Append(@, Served(url, "ok", n, TRUE))]
    /\ url' = NextUrl(url, TRUE)
    /\ UNCHANGED <<pc, mode, next_run, ds_value, openConns, table, reported, raw, row>>

\* status "OK", n records and no next_url: extend, leave the loop, write
FetchPageLast ==
    /\ pc = "fetch"
    /\ \E d \in 0..MaxDelay, n \in 1..(MaxRecords - Len(tickers)) :
        /\ now + d <= MaxNow
        /\ now' = now + d
        /\ hist' = Busy(now + d)
        /\ tickers' = Extend(tickers, Results(url, n))
        /\ CallWrite(tickers', Served(url, "ok", n, FALSE))
    /\ url' = NextUrl(url, FALSE)
    /\ UNCHANGED <<mode, next_run, ds_value, openConns, table, raw, row>>

(***************************************************************************)
(* script.py: write_to_snowflake, for a non-empty list                     *)
(***************************************************************************)
Stmt(r, s) == [r EXCEPT !.stmts = Append(@, s)]

Raised(r) == [r EXCEPT !.err = "warehouse"]

\* snowflake.connector.connect(...) and conn.cursor()
Connect ==
    /\ pc = "connect"
    /\ \E d \in 0..MaxDelay :
        /\ now + d <= MaxNow
        /\ now' = now + d
        /\ hist' = Busy(now + d)
    /\ openConns' = openConns + 1
    /\ run' = Stmt(run, "connect")
    /\ pc' = "create"
    /\ UNCHANGED <<mode, next_run, url, tickers, ds_value, table, reported, raw, row>>

\* connect raises: logged and re-raised; no connection was opened
ConnectFails ==
    /\ pc = "connect"
    /\ run' = Raised(Stmt(run, "connect"))
    /\ pc' = "raised"
    /\ UNCHANGED <<now, mode, next_run, url, tickers, ds_value, openConns, table,
                   reported, hist, raw, row>>

\* cursor.execute(CREATE TABLE IF NOT EXISTS ...)
CreateTable ==
    /\ pc = "create"
    /\ run' = Stmt(run, "create")
    /\ pc' = "insert"
    /\ UNCHANGED <<now, mode, next_run, url, tickers, ds_value, openConns, table,
                   reported, hist, raw, row>>

\* the CREATE TABLE raises: logged and re-raised, the connection stays open
CreateFails ==
    /\ pc = "create"
    /\ run' = Raised(Stmt(run, "create"))
    /\ pc' = "raised"
    /\ UNCHANGED <<now, mode, next_run, url, tickers, ds_value, openConns, table,
                   reported, hist, raw, row>>

DateAtRunStart == Today(run.start)

\* date.today().isoformat() in write_to_snowflake
DateToday == Today(now)

ReplaceRows(tb, rows) == rows

\* the INSERT of the batch takes effect: rows are added after the existing ones
AppendRows(tb, rows) == tb \o rows

\* ds_value and the rows are built; cursor.executemany(insert_sql, rows).
\* The session either commits each statement by itself (the warehouse's
\* default) or leaves the rows pending until conn.commit().
Insert ==
    /\ pc = "insert"
    /\ ds_value' = DateToday
    /\ IF BuildRows(tickers, ds_value') # <<>>
       THEN /\ pc' = "commit"
            /\ \/ /\ table' = AppendRows(table, BuildRows(tickers, ds_value'))
                  /\ run' = [Stmt(run, "insert") EXCEPT !.built = now]
               \/ /\ table' = table
                  /\ run' = [Stmt(run, "insert") EXCEPT !.built = now, !.pending = TRUE]
       ELSE /\ pc' = "close"
            /\ table' = table
            /\ run' = [run EXCEPT !.built = now]
    /\ UNCHANGED <<now, mode, next_run, url, tickers, openConns, reported, hist, raw, row>>

\* executemany raises: logged and re-raised, the connection stays open
InsertFails ==
    /\ pc = "insert"
    /\ ds_value' = DateToday
    /\ run' = [Raised(Stmt(run, "insert")) EXCEPT !.built = now]
    /\ pc' = "raised"
    /\ UNCHANGED <<now, mode, next_run, url, tickers, openConns, table, reported,
                   hist, raw, row>>

\* conn.commit(): pending rows become part of the table
Commit ==
    /\ pc = "commit"
    /\ table' = IF run.pending
                THEN AppendRows(table, BuildRows(tickers, ds_value))
                ELSE table
    /\ run' = [Stmt(run, "commit") EXCEPT !.pending = FALSE]
    /\ pc' = "close"
    /\ UNCHANGED <<now, mode, next_run, url, tickers, ds_value, openConns, reported,
                   hist, raw, row>>

\* conn.commit() raises: logged and re-raised, pending rows are lost
CommitFails ==
    /\ pc = "commit"
    /\ run' = [Raised(Stmt(run, "commit")) EXCEPT !.pending = FALSE]
    /\ pc' = "raised"
    /\ UNCHANGED <<now, mode, next_run, url, tickers, ds_value, openConns, table,
                   reported, hist, raw, row>>

\* cursor.close(); conn.close(); back in run_stock_job, "Wrote n rows"
Close ==
    /\ pc = "close"
    /\ openConns' = openConns - 1
    /\ run' = Stmt(run, "close")
    /\ pc' = "returned"
    /\ reported' = Len(tickers)
    /\ UNCHANGED <<now, mode, next_run, url, tickers, ds_value, table, hist, raw, row>>

\* the steps of run_stock_job and write_to_snowflake
JobStep ==
    \/ FetchTransportError \/ FetchBadJson \/ FetchNotOK \/ FetchEmpty
    \/ FetchPageNext \/ FetchPageLast
    \/ Connect \/ ConnectFails \/ CreateTable \/ CreateFails
    \/ Insert \/ InsertFails \/ Commit \/ CommitFails \/ Close

\* scheduler.py as deployed
Next ==
    \/ StartScheduler \/ Kill \/ Idle
    \/ PollDue \/ PollIdle \/ SyncCompleted \/ SyncFailed
    \/ JobStep

Spec == Init /\ [][Next]_vars

\* script.py run by hand
NextScript ==
    \/ StartScript \/ Kill \/ Idle
    \/ ScriptExit \/ ScriptTraceback
    \/ JobStep

SpecScript == Init /\ [][NextScript]_vars

(***************************************************************************)
(* The schema mapper by itself: any raw record, any load date.             *)
(***************************************************************************)
MapStrings ==
    { <<"t", "r", "u", "e">>, <<"T", "R", "U", "E">>, <<"T", "r", "u", "e">>,
      <<"t", "R", "u", "E">>, <<"f", "a", "l", "s", "e">>,
      <<"F", "A", "L", "S", "E">>, <<"F", "a", "l", "s", "e">>,
      <<"t", "r", "u">>, <<"t", "r", "u", "e", "x">>, <<"X">>, <<>> }

MapValues ==
    {Str(x) : x \in MapStrings} \cup {Bool(TRUE), Bool(FALSE), None, Num(0), Num(1)}

MapFields == {"ticker", "active", "ds"}

RawRecords == UNION {[D -> MapValues] : D \in SUBSET MapFields}

InitMap ==
    /\ now = 0
    /\ pc = "down"
    /\ mode = "none"
    /\ next_run = 0
    /\ url = 0
    /\ tickers = <<>>
    /\ ds_value = None
    /\ openConns = 0
    /\ table = <<>>
    /\ reported = -1
    /\ run = NoRun
    /\ hist = NoHist
    /\ raw \in RawRecords
    /\ row = <<>>

\* the body of "for t in tickers" for one record
MapRecord ==
    /\ row = <<>>
    /\ \E d \in 0..MaxMapDay : row' = BuildRow(raw, IsoFormat(d))
    /\ UNCHANGED <<progVars, raw>>

NextMap == MapRecord

SpecMap == InitMap /\ [][NextMap]_vars

(***************************************************************************)
(* Properties.                                                             *)
(***************************************************************************)
\* the rows the table holds beyond those it held when the run began
RunRows == SubSeq(table, Len(run.tableBefore) + 1, Len(table))

IsPrefix(a, b) == Len(a) <= Len(b) /\ SubSeq(b, 1, Len(a)) = a

DsCol == CHOOSE i \in 1..Len(TARGET_SCHEMA) : TARGET_SCHEMA[i][1] = "ds"

AllOK(s) == \A i \in DOMAIN s : s[i].kind = "ok"

\* a page at which pagination ends: no next_url, or an empty result list
Stops(e) == e.n = 0 \/ ~e.next

\* the records of the served pages, in request order
RECURSIVE Accumulated(_)
Accumulated(s) ==
    IF s = <<>> THEN <<>>
    ELSE Accumulated(SubSeq(s, 1, Len(s) - 1))
         \o (IF s[Len(s)].kind = "ok"
             THEN [i \in 1..s[Len(s)].n |-> ApiRecord(s[Len(s)].url, i)]
             ELSE <<>>)

\* the job has returned normally
Completed == pc = "returned" \/ run.outcome = "completed"

\* C1: when every served page is OK, the pages are requested in chain order,
\* none after the first stopping page and none skipped, the accumulated list
\* is the records of the served pages in request order, and the loop is left
\* exactly at a page without next_url or with an empty result list.
C1_Pagination ==
    LET s == run.served IN
    AllOK(s) =>
        /\ \A i \in DOMAIN s : s[i].url = i
        /\ \A i \in DOMAIN s : i < Len(s) => ~Stops(s[i])
        /\ tickers = Accumulated(s)
        /\ pc = "fetch" => url = Len(s) + 1 /\ (s # <<>> => ~Stops(s[Len(s)]))
        /\ run.writeCalled => s # <<>> /\ Stops(s[Len(s)])
        /\ run.outcome # "none" => pc = "fetch" \/ run.writeCalled

C1_Witness ==
    /\ AllOK(run.served)
    /\ Len(run.served) = 2
    /\ run.writeCalled
    /\ Len(tickers) = 2

\* C2: when page k >= 2 is malformed JSON or has a status other than OK, no
\* further page is requested, write_to_snowflake is called with exactly the
\* records of pages 1..k-1, and a run that completes leaves that non-zero
\* number of new rows in the table.
C2_PartialWrite ==
    LET s == run.served
        k == Len(run.served)
    IN  (k >= 2 /\ s[k].kind \in {"badjson", "notok"}) =>
            /\ pc # "fetch"
            /\ run.writeCalled
            /\ tickers = Accumulated(SubSeq(s, 1, k - 1))
            /\ tickers # <<>>
            /\ Completed =>
                /\ IsPrefix(run.tableBefore, table)
                /\ Len(RunRows) = Len(tickers)
                /\ \A i \in DOMAIN RunRows : RunRows[i][1] = tickers[i]["ticker"]

C2_Witness ==
    /\ Len(run.served) >= 2
    /\ run.served[Len(run.served)].kind = "notok"
    /\ run.outcome = "completed"
    /\ Len(table) > Len(run.tableBefore)

\* C3: when write_to_snowflake is called with an empty list, no connection is
\* attempted, no statement is issued, the table is unchanged and the job
\* reports zero rows.
C3_EmptyNoWrite ==
    (run.writeCalled /\ tickers = <<>>) =>
        /\ run.stmts = <<>>
        /\ table = run.tableBefore
        /\ reported = 0
        /\ pc \in {"returned", "sleep"}

C3_Witness ==
    /\ run.writeCalled
    /\ tickers = <<>>
    /\ Len(run.served) = 1
    /\ run.served[1].kind = "notok"
    /\ run.tableBefore # <<>>
    /\ run.outcome = "completed"

\* C4 as stated: every row inserted by a run carries the date on which the
\* run started.
C4_DsIsStartDate ==
    run.outcome # "none" =>
        \A i \in DOMAIN RunRows : RunRows[i][DsCol] = IsoFormat(run.start \div TicksPerDay)

\* C4 as amended: every row inserted by a run carries one and the same date,
\* the date on which write_to_snowflake built the rows, after the fetching;
\* that is the start date when the run has not passed midnight by then.
C4_DsIsWriteDate ==
    run.outcome # "none" =>
        /\ RunRows # <<>> => run.built >= run.start
        /\ \A i \in DOMAIN RunRows :
            RunRows[i][DsCol] = IsoFormat(run.built \div TicksPerDay)
        /\ \A i, j \in DOMAIN RunRows : RunRows[i][DsCol] = RunRows[j][DsCol]
        /\ run.built >= 0 => ds_value = IsoFormat(run.built \div TicksPerDay)
        /\ (run.built >= 0 /\ run.built \div TicksPerDay = run.start \div TicksPerDay) =>
            ds_value = IsoFormat(run.start \div TicksPerDay)

C4_Witness ==
    /\ Completed
    /\ Len(RunRows) = 2
    /\ run.built \div TicksPerDay > run.start \div TicksPerDay

\* C5: a failed run leaves the scheduler process alive and in its polling
\* loop, with the job due again at the next 09:00, however many runs failed.
C5_LoopSurvives ==
    hist.failures > 0 =>
        /\ mode = "scheduler"
        /\ pc # "down"
        /\ run.outcome = "failed" =>
            /\ pc = "sleep"
            /\ now < next_run
            /\ next_run <= now + TicksPerDay
            /\ next_run % TicksPerDay = AtTick

C5_Witness ==
    /\ hist.failures = 2
    /\ run.outcome = "running"
    /\ Len(hist.invocations) = 3

\* C6: after a transport error on any page the job has raised to the
\* scheduler's handler, write_to_snowflake was not called, no statement was
\* issued and the table holds no row of the run.
C6_TransportNoWrite ==
    run.err = "transport" =>
        /\ ~run.writeCalled
        /\ run.stmts = <<>>
        /\ table = run.tableBefore
        /\ pc = "raised" \/ (pc = "sleep" /\ run.outcome = "failed")

C6_Witness ==
    /\ run.err = "transport"
    /\ Len(run.served) = 2
    /\ tickers # <<>>
    /\ run.outcome = "failed"
    /\ run.tableBefore # <<>>

\* C7: when a run has ended, successfully or not, no connection it opened is
\* still open, and none is open when a run begins.
C7_ConnectionsClosed ==
    /\ run.outcome \in {"completed", "failed"} => openConns = 0
    /\ pc = "fetch" => openConns = 0

\* C8: no run changes or removes a row the table held before it; a run that
\* completes with n accumulated records leaves exactly n new rows, one per
\* record in accumulation order, and reports n.
C8_AppendOnly ==
    run.outcome # "none" =>
        /\ IsPrefix(run.tableBefore, table)
        /\ Completed =>
            /\ Len(RunRows) = Len(tickers)
            /\ reported = Len(tickers)
            /\ \A i \in DOMAIN RunRows :
                /\ RunRows[i][1] = tickers[i]["ticker"]
                /\ RunRows[i][DsCol] = ds_value

\* two completed runs on one day over the same API data: every row twice
C8_Witness ==
    /\ pc = "returned"
    /\ Len(tickers) = 2
    /\ run.tableBefore # <<>>
    /\ table = run.tableBefore \o run.tableBefore

\* the mapped value of one raw value, spelled out case by case
UpperChar(c) ==
    CASE c = "t" -> "T" [] c = "r" -> "R" [] c = "u" -> "U" [] c = "e" -> "E"
      [] c = "f" -> "F" [] c = "a" -> "A" [] c = "l" -> "L" [] c = "s" -> "S"
      [] OTHER -> c

SameIgnoringCase(x, w) ==
    /\ Len(x) = Len(w)
    /\ \A i \in 1..Len(w) : x[i] = w[i] \/ x[i] = UpperChar(w[i])

\* C9: the mapped row has one value per schema column, in schema order; for
\* every column but ds: an absent field gives null, text that reads true or
\* false in any case gives that boolean, any other value is unchanged.
C9_Mapper ==
    row # <<>> =>
        /\ Len(row) = Len(TARGET_SCHEMA)
        /\ \A i \in 1..Len(TARGET_SCHEMA) :
            LET col == TARGET_SCHEMA[i][1] IN
            col # "ds" =>
                IF col \notin DOMAIN raw THEN row[i] = None
                ELSE IF raw[col].tag = "str" /\ SameIgnoringCase(raw[col].s, <<"t", "r", "u", "e">>)
                     THEN row[i] = Bool(TRUE)
                ELSE IF raw[col].tag = "str" /\ SameIgnoringCase(raw[col].s, <<"f", "a", "l", "s", "e">>)
                     THEN row[i] = Bool(FALSE)
                ELSE row[i] = raw[col]

C9_Witness ==
    /\ row # <<>>
    /\ DOMAIN raw = {"active"}
    /\ raw["active"] = Str(<<"T", "R", "U", "E">>)
    /\ row[7] = Bool(TRUE)
    /\ row[1] = None

\* the scheduler's invocations that began on day d
Count(d) == Cardinality({i \in DOMAIN hist.invocations : hist.invocations[i] \div TicksPerDay = d})

Days == 0..(MaxNow \div TicksPerDay)

\* C10 as stated: the job is invoked exactly once on every day whose 09:00
\* passes while the scheduler process runs, and on no other day.
C10_OncePerRunningDay ==
    \A d \in Days :
        /\ d \in hist.trigIdle \cup hist.trigBusy => Count(d) = 1
        /\ d \notin hist.trigIdle \cup hist.trigBusy => Count(d) = 0

\* C10 as amended: the job is invoked exactly once on every day whose 09:00
\* passes while the scheduler process waits in its polling loop, and on no
\* other day: not on a day whose 09:00 passes while no process runs or
\* while an earlier invocation is still executing. Invocations follow one
\* another in time, and the job that executes is the one invoked last.
C10_OncePerIdleDay ==
    /\ \A d \in Days :
        /\ d \in hist.trigIdle => Count(d) = 1
        /\ d \notin hist.trigIdle => Count(d) = 0
    /\ \A i, j \in DOMAIN hist.invocations :
        i < j => hist.invocations[i] < hist.invocations[j]
    /\ (mode = "scheduler" /\ pc \in JobPcs) =>
        run.start = hist.invocations[Len(hist.invocations)]

\* 09:00 of day 0 passed with no process, day 1 ran and failed, day 2 runs
C10_Witness ==
    /\ Count(0) = 0
    /\ Count(1) = 1
    /\ Count(2) = 1
    /\ hist.failures = 1
    /\ run.outcome = "running"

====
